---- MODULE Spec2Model ----
(***************************************************************************)
(* Snapshot intake and two-leg payment reconciliation of Mr.Market:        *)
(* SnapshotsService.handleSnapshots / fetchAndProcessSnapshots /           *)
(* handleSnapshot / refund, and the 'arbitrage.create' and                 *)
(* 'market_making.create' listeners.                                       *)
(*                                                                         *)
(* Every asynchronous function is cut at its awaits: one action is the     *)
(* completion of the awaited store or network call together with the       *)
(* synchronous code that follows it up to the next await.  Node runs the   *)
(* code between two awaits without interruption, and the awaited calls of  *)
(* different invocations complete in any order.                            *)
(***************************************************************************)
EXTENDS Integers, Sequences, FiniteSets, TLC

\* ------------------------------------------------------------------ bounds
\* handleSnapshot invocations started over a whole behaviour
MaxTasks == 3
\* handleSnapshot invocations started over a whole behaviour of FaultSpec
MaxFaultTasks == 2
\* store calls that throw over a whole behaviour of FaultSpec
MaxFaults == 1
\* characters of an instruction after its two-character prefix (MemoSpec)
MaxPayload == 2
\* addMessageIfNotExist calls made in the message specification
MaxCalls == 3

\* ------------------------------------------------ the external ledger
\* A memo as handleSnapshot sees it: absent, the empty string, or data whose
\* decoded text starts with `prefix`; `parsed` tells whether the decoder of
\* that prefix returns details, and traceId / symbol are the details' fields.
NoMemo == [kind |-> "null", prefix |-> "", parsed |-> FALSE, traceId |-> "", symbol |-> ""]
EmptyMemo == [kind |-> "empty", prefix |-> "", parsed |-> FALSE, traceId |-> "", symbol |-> ""]
Memo(prefix, parsed, traceId, symbol) ==
    [kind |-> "data", prefix |-> prefix, parsed |-> parsed, traceId |-> traceId, symbol |-> symbol]

Transfer(id, sender, asset, amount, memo) ==
    [snapshot_id |-> id, opponent_id |-> sender, asset_id |-> asset, amount |-> amount, memo |-> memo]

\* The transfers the ledger can return; snapshot_id is the index.
Ledger ==
    << Transfer(1, "u1", "BTC",  1, Memo("AR", TRUE, "t1", "BTC/USDT")),
       Transfer(2, "u1", "USDT", 2, Memo("AR", TRUE, "t1", "BTC/USDT")),
       Transfer(3, "u2", "ETH",  3, Memo("AR", TRUE, "t1", "BTC/USDT")),
       Transfer(4, "u2", "BTC",  4, Memo("MM", TRUE, "t1", "BTC/USDT")),
       Transfer(5, "u2", "USDT", 5, Memo("MM", TRUE, "t1", "ETH/USDT")),
       Transfer(6, "u1", "BTC",  6, NoMemo),
       Transfer(7, "u1", "BTC",  7, EmptyMemo),
       Transfer(8, "u1", "BTC",  8, Memo("SP", TRUE, "t1", "BTC/USDT")),
       Transfer(9, "u1", "BTC",  9, Memo("XX", FALSE, "", "")),
       Transfer(10, "u1", "BTC", 10, Memo("AR", FALSE, "", "")),
       Transfer(11, "u2", "BTC", 11, Memo("AR", TRUE, "t2", "BTC/USDT")),
       Transfer(12, "u1", "BTC", 12, Memo("SP", FALSE, "", "")),
       Transfer(13, "u1", "BTC", 13, Memo("MM", FALSE, "", "")) >>

SnapshotIds == 1..Len(Ledger)
\* The trace ids named by arbitrage and market-making memos.
TraceIds == {"t1", "t2"}

\* ------------------------------------------------------------ the stores
\* Pair Registry: the asset ids of a pair symbol.
GetAssetIDBySymbol(symbol) ==
    CASE symbol = "BTC/USDT" -> [baseAssetID |-> "BTC", targetAssetID |-> "USDT"]
      [] symbol = "ETH/USDT" -> [baseAssetID |-> "ETH", targetAssetID |-> "USDT"]

\* findPaymentStateByIdRaw returns no row: the value of `paymentState` then.
NoPaymentState ==
    [orderId |-> "", type |-> "", symbol |-> "",
     firstAssetId |-> "", firstAssetAmount |-> 0, firstSnapshotId |-> 0,
     secondAssetId |-> "", secondAssetAmount |-> 0, secondSnapshotId |-> 0]

\* ------------------------------------------------------ the memo text
\* Text is a sequence of character codes, a buffer a sequence of bytes.
\* The prefixes "SP", "AR", "MM" and the characters ":", "1", "z" of a payload.
Prefixes == {<< 83, 80 >>, << 65, 82 >>, << 77, 77 >>}
PayloadChars == {58, 49, 122}

\* Sequences over `chars` of length up to n.
RECURSIVE TextsUpTo(_, _)
TextsUpTo(chars, n) ==
    IF n = 0 THEN {<< >>}
    ELSE TextsUpTo(chars, n - 1)
         \cup {<< c >> \o x : c \in chars, x \in {y \in TextsUpTo(chars, n - 1) : Len(y) = n - 1}}

\* The instruction strings a sender encodes: prefix + payload.
Instructions == {p \o x : p \in Prefixes, x \in TextsUpTo(PayloadChars, MaxPayload)}

\* The sender's side, encode = hex(base64(instruction)).
Base64Char(v) ==
    IF v < 26 THEN 65 + v
    ELSE IF v < 52 THEN 97 + (v - 26)
    ELSE IF v < 62 THEN 48 + (v - 52)
    ELSE IF v = 62 THEN 43 ELSE 47

RECURSIVE Base64Encode(_)
Base64Encode(bytes) ==
    IF Len(bytes) = 0 THEN << >>
    ELSE IF Len(bytes) = 1
    THEN << Base64Char(bytes[1] \div 4), Base64Char((bytes[1] % 4) * 16), 61, 61 >>
    ELSE IF Len(bytes) = 2
    THEN << Base64Char(bytes[1] \div 4),
            Base64Char((bytes[1] % 4) * 16 + bytes[2] \div 16),
            Base64Char((bytes[2] % 16) * 4), 61 >>
    ELSE << Base64Char(bytes[1] \div 4),
            Base64Char((bytes[1] % 4) * 16 + bytes[2] \div 16),
            Base64Char((bytes[2] % 16) * 4 + bytes[3] \div 64),
            Base64Char(bytes[3] % 64) >>
         \o Base64Encode(SubSeq(bytes, 4, Len(bytes)))

HexChar(v) == IF v < 10 THEN 48 + v ELSE 97 + (v - 10)

RECURSIVE HexEncode(_)
HexEncode(bytes) ==
    IF bytes = << >> THEN << >>
    ELSE << HexChar(bytes[1] \div 16), HexChar(bytes[1] % 16) >> \o HexEncode(Tail(bytes))

Encode(instruction) == HexEncode(Base64Encode(instruction))

\* The value of a hex digit, -1 for any other character.
HexValue(c) ==
    IF c \in 48..57 THEN c - 48
    ELSE IF c \in 97..102 THEN c - 87
    ELSE IF c \in 65..70 THEN c - 55
    ELSE -1

\* Buffer.from(memo, 'hex') with the two digits of a byte taken low first.
RECURSIVE HexDecode_LowFirst(_)
HexDecode_LowFirst(text) ==
    IF Len(text) < 2 \/ HexValue(text[1]) < 0 \/ HexValue(text[2]) < 0 THEN << >>
    ELSE << HexValue(text[2]) * 16 + HexValue(text[1]) >>
         \o HexDecode_LowFirst(SubSeq(text, 3, Len(text)))

\* Buffer.from(text, 'hex'): one byte per pair of hex digits, up to the first
\* pair that is not two hex digits; a last single digit is dropped.
RECURSIVE HexDecode(_)
HexDecode(text) ==
    IF Len(text) < 2 \/ HexValue(text[1]) < 0 \/ HexValue(text[2]) < 0 THEN << >>
    ELSE << HexValue(text[1]) * 16 + HexValue(text[2]) >>
         \o HexDecode(SubSeq(text, 3, Len(text)))

\* buffer.toString('utf-8'): a byte below 128 is the character of that code;
\* any other byte is shown as U+FFFD (multi-byte sequences are not modelled).
Utf8ToString(bytes) == [i \in 1..Len(bytes) |-> IF bytes[i] < 128 THEN bytes[i] ELSE 65533]

\* The value of a base64 (or base64url) character, -1 for any other character.
Base64Value(c) ==
    IF c \in 65..90 THEN c - 65
    ELSE IF c \in 97..122 THEN c - 71
    ELSE IF c \in 48..57 THEN c + 4
    ELSE IF c \in {43, 45} THEN 62
    ELSE IF c \in {47, 95} THEN 63
    ELSE -1

\* The 6-bit values Buffer.from(text, 'base64') reads: characters outside the
\* alphabet are skipped and "=" ends the data.
RECURSIVE Sextets(_)
Sextets(text) ==
    IF text = << >> \/ text[1] = 61 THEN << >>
    ELSE IF Base64Value(text[1]) < 0 THEN Sextets(Tail(text))
    ELSE << Base64Value(text[1]) >> \o Sextets(Tail(text))

\* The bytes of the 6-bit values: 3 bytes of every 4, 2 of a last 3, 1 of a last 2.
RECURSIVE SextetBytes(_)
SextetBytes(v) ==
    IF Len(v) < 2 THEN << >>
    ELSE IF Len(v) = 2 THEN << v[1] * 4 + v[2] \div 16 >>
    ELSE IF Len(v) = 3 THEN << v[1] * 4 + v[2] \div 16, (v[2] % 16) * 16 + v[3] \div 4 >>
    ELSE << v[1] * 4 + v[2] \div 16, (v[2] % 16) * 16 + v[3] \div 4, (v[3] % 4) * 64 + v[4] >>
         \o SextetBytes(SubSeq(v, 5, Len(v)))

Base64Decode(text) == SextetBytes(Sextets(text))

\* decodedMemo.slice(0, 2), as the case label it is compared with.
Slice02(text) == SubSeq(text, 1, IF Len(text) < 2 THEN Len(text) ELSE 2)
CaseLabel(text) ==
    CASE text = << 83, 80 >> -> "SP"
      [] text = << 65, 82 >> -> "AR"
      [] text = << 77, 77 >> -> "MM"
      [] OTHER -> ""

\* `decoding` while no memo is being decoded.
NotDecoding ==
    [stage |-> "idle", instruction |-> << >>, memo |-> << >>,
     hexDecoedMemo |-> << >>, decodedMemo |-> << >>, tradingType |-> ""]

\* The message ids the Blaze loop delivers.
MessageIds == {"m1", "m2"}

VARIABLES
    decoding,       \* the memo text on its way through lines 529-531 of handleSnapshot
    enableCron,     \* SnapshotsService.enableCron
    lastTick,       \* what the last cron tick did
    tasks,          \* the handleSnapshot invocations, with the listener each one started:
                    \*   << snapshot id, n >> is the n-th delivery of that snapshot
    snapshotsDb,    \* Snapshot Ledger: the snapshot ids that have a ProcessedTransferMarker
    markerWrites,   \* tasks whose createSnapshot gave the repository a marker
    paymentStates,  \* PaymentState rows by order id (trace id)
    psWrites,       \* PaymentState writes made: task, operation
    orders,         \* createArbitrage / createMarketMaking calls made
    refunds,        \* refund(snapshot) calls made, with what sendMixinTx did
    events,         \* events emitted by handleSnapshot
    messageDb,      \* message records held by the message repository, counted by message_id
    calls           \* the addMessageIfNotExist calls made by messageHandler.onMessage

vars == << decoding, enableCron, lastTick, tasks, snapshotsDb, markerWrites,
           paymentStates, psWrites, orders, refunds, events, messageDb, calls >>

messages == << messageDb, calls >>

store == << snapshotsDb, markerWrites, paymentStates, psWrites, orders, refunds, events >>

Snapshot(t) == Ledger[t[1]]
Details(t) == Snapshot(t).memo

Init ==
    /\ decoding = NotDecoding
    /\ enableCron \in BOOLEAN
    /\ lastTick = "none"
    /\ tasks = << >>
    /\ snapshotsDb = {}
    /\ markerWrites = {}
    /\ paymentStates = [tr \in TraceIds |-> NoPaymentState]
    /\ psWrites = {}
    /\ orders = {}
    /\ refunds = {}
    /\ events = {}
    /\ messageDb = [m \in MessageIds |-> 0]
    /\ calls = << >>

\* ------------------------------------------------- the intake poller
\* A handleSnapshot invocation stopped at its first await.
NewTask ==
    [hpc |-> "checkSnapshotExist", lpc |-> "none", paymentState |-> NoPaymentState]

\* The deliveries of snapshot `id` so far.
Deliveries(id) == Cardinality({t \in DOMAIN tasks : t[1] = id})

\* What one fetch can return: any few snapshots, seen before or not.
Batches == {b \in SUBSET SnapshotIds : Cardinality(b) <= MaxTasks}

\* handleSnapshots that fetches whatever the cron switch says.
HandleSnapshotsDisabled_Fetches ==
    /\ ~enableCron
    /\ tasks = << >>
    /\ lastTick' = "handled"
    /\ tasks' = [t \in {<< 6, 1 >>} |-> NewTask]
    /\ UNCHANGED << messages, decoding, enableCron, store >>

\* handleSnapshots with the cron switch off: returns at once.
HandleSnapshotsDisabled ==
    /\ ~enableCron
    /\ lastTick' = "disabled"
    /\ UNCHANGED << messages, decoding, enableCron, tasks, store >>

\* A failed fetch that switches the poller off.
FetchFailed_StopsCron ==
    /\ enableCron
    /\ lastTick' = "fetch_failed"
    /\ enableCron' = FALSE
    /\ UNCHANGED << messages, decoding, tasks, store >>

\* fetchSafeSnapshots throws or returns nothing: logged, the cycle ends.
FetchFailed ==
    /\ enableCron
    /\ lastTick' = "fetch_failed"
    /\ UNCHANGED << messages, decoding, enableCron, tasks, store >>

\* fetchAndProcessSnapshots: the fetch returns `batch`; forEach starts one
\* handleSnapshot per snapshot without awaiting any of them, and returns.
FetchAndProcessSnapshots(batch) ==
    /\ enableCron
    /\ Cardinality(DOMAIN tasks) + Cardinality(batch) <= MaxTasks
    /\ lastTick' = "handled"
    /\ LET new == {<< id, Deliveries(id) + 1 >> : id \in batch}
       IN tasks' = [t \in DOMAIN tasks \cup new |->
                      IF t \in DOMAIN tasks THEN tasks[t] ELSE NewTask]
    /\ UNCHANGED << messages, decoding, enableCron, store >>

\* ------------------------------------------------------ handleSnapshot
CheckSnapshotExist(id) == id \in snapshotsDb

\* Dedup check dropped: every delivery is taken for a new snapshot.
SnapshotExist_Never(t) == FALSE

\* `exist` in handleSnapshot: the marker of this snapshot's id is looked up.
SnapshotExist(t) == CheckSnapshotExist(Snapshot(t).snapshot_id)

TradingType(memo) == memo.prefix

\* The dispatch without the `if (!spotDetails) break`.
EventFor_SpotUnparsed(memo) ==
    CASE TradingType(memo) = "SP" -> "spot.create"
      [] TradingType(memo) = "AR" /\ memo.parsed -> "arbitrage.create"
      [] TradingType(memo) = "MM" /\ memo.parsed -> "market_making.create"
      [] OTHER -> ""

\* The dispatch with the market-making case emitting the arbitrage event.
EventFor_MMAsArbitrage(memo) ==
    CASE TradingType(memo) = "SP" /\ memo.parsed -> "spot.create"
      [] TradingType(memo) = "AR" /\ memo.parsed -> "arbitrage.create"
      [] TradingType(memo) = "MM" /\ memo.parsed -> "arbitrage.create"
      [] OTHER -> ""

\* The event handleSnapshot emits for a decoded memo, "" when it emits none.
EventFor(memo) ==
    CASE TradingType(memo) = "SP" /\ memo.parsed -> "spot.create"
      [] TradingType(memo) = "AR" /\ memo.parsed -> "arbitrage.create"
      [] TradingType(memo) = "MM" /\ memo.parsed -> "market_making.create"
      [] OTHER -> ""

\* handleSnapshot with the spot event handled by the two-leg listener.
HandleSnapshot_SpotReconciled(t) ==
    /\ tasks[t].hpc = "checkSnapshotExist"
    /\ LET snapshot == Snapshot(t)
           ev == EventFor(snapshot.memo)
       IN IF SnapshotExist(t)
          THEN /\ tasks' = [tasks EXCEPT ![t].hpc = "exists"]
               /\ UNCHANGED events
          ELSE IF snapshot.memo.kind \in {"null", "empty"}
          THEN /\ tasks' = [tasks EXCEPT ![t].hpc = "createSnapshot"]
               /\ UNCHANGED events
          ELSE /\ events' = IF ev = "" THEN events
                                      ELSE events \cup {[name |-> ev, task |-> t, snap |-> snapshot.snapshot_id,
                                                     details |-> snapshot.memo]}
               /\ tasks' = [tasks EXCEPT ![t].hpc = "createSnapshot",
                                         ![t].lpc = IF ev # "" THEN "findPaymentState" ELSE "none"]
    /\ UNCHANGED << messages, decoding, enableCron, lastTick, snapshotsDb, markerWrites,
                    paymentStates, psWrites, orders, refunds >>

\* handleSnapshot with the refund of an empty memo left in.
HandleSnapshot_RefundEmptyMemo(t) ==
    /\ tasks[t].hpc = "checkSnapshotExist"
    /\ LET snapshot == Snapshot(t)
           ev == EventFor(snapshot.memo)
       IN IF SnapshotExist(t)
          THEN /\ tasks' = [tasks EXCEPT ![t].hpc = "exists"]
               /\ UNCHANGED events
          ELSE IF snapshot.memo.kind = "null"
          THEN /\ tasks' = [tasks EXCEPT ![t].hpc = "createSnapshot"]
               /\ UNCHANGED events
          ELSE IF snapshot.memo.kind = "empty"
          THEN /\ tasks' = [tasks EXCEPT ![t].hpc = "createSnapshot", ![t].lpc = "refund"]
               /\ UNCHANGED events
          ELSE /\ events' = IF ev = "" THEN events
                                      ELSE events \cup {[name |-> ev, task |-> t, snap |-> snapshot.snapshot_id,
                                                     details |-> snapshot.memo]}
               /\ tasks' = [tasks EXCEPT ![t].hpc = "createSnapshot",
                                         ![t].lpc = IF ev \in {"arbitrage.create", "market_making.create"}
                                                    THEN "findPaymentState" ELSE "none"]
    /\ UNCHANGED << messages, decoding, enableCron, lastTick, snapshotsDb, markerWrites,
                    paymentStates, psWrites, orders, refunds >>

\* handleSnapshot from the answer of checkSnapshotExist to the call of
\* createSnapshot.  emit() calls the listener at once: it runs to its first
\* await (findPaymentStateByIdRaw) and emit() returns without its promise.
HandleSnapshot(t) ==
    /\ tasks[t].hpc = "checkSnapshotExist"
    /\ LET snapshot == Snapshot(t)
           ev == EventFor(snapshot.memo)
       IN IF SnapshotExist(t)
          THEN /\ tasks' = [tasks EXCEPT ![t].hpc = "exists"]
               /\ UNCHANGED events
          ELSE IF snapshot.memo.kind \in {"null", "empty"}
          THEN /\ tasks' = [tasks EXCEPT ![t].hpc = "createSnapshot"]
               /\ UNCHANGED events
          ELSE /\ events' = IF ev = "" THEN events
                                      ELSE events \cup {[name |-> ev, task |-> t, snap |-> snapshot.snapshot_id,
                                                     details |-> snapshot.memo]}
               /\ tasks' = [tasks EXCEPT ![t].hpc = "createSnapshot",
                                         ![t].lpc = IF ev \in {"arbitrage.create", "market_making.create"}
                                                    THEN "findPaymentState" ELSE "none"]
    /\ UNCHANGED << messages, decoding, enableCron, lastTick, snapshotsDb, markerWrites,
                    paymentStates, psWrites, orders, refunds >>

\* createSnapshot that returns without storing the marker.
CreateSnapshot_NotStored(t) ==
    /\ tasks[t].hpc = "createSnapshot"
    /\ tasks' = [tasks EXCEPT ![t].hpc = "done"]
    /\ UNCHANGED << messages, decoding, enableCron, lastTick, store >>

\* createSnapshot: the repository is given the marker of the snapshot; an
\* error of the repository is caught and logged.
CreateSnapshot(t) ==
    /\ tasks[t].hpc = "createSnapshot"
    /\ snapshotsDb' = snapshotsDb \cup {Snapshot(t).snapshot_id}
    /\ markerWrites' = markerWrites \cup {t}
    /\ tasks' = [tasks EXCEPT ![t].hpc = "done"]
    /\ UNCHANGED << messages, decoding, enableCron, lastTick, paymentStates, psWrites, orders, refunds, events >>

\* --------------------------------- the arbitrage / market-making listeners
\* The listener that handles the memo's event, and the `type` it stores.
StrategyType(memo) == IF TradingType(memo) = "AR" THEN "arbitrage" ELSE "market_making"

\* The asset of the transfer is neither the base nor the target of the pair.
AssetMismatch(snapshot, details) ==
    LET ids == GetAssetIDBySymbol(details.symbol)
    IN snapshot.asset_id # ids.baseAssetID /\ snapshot.asset_id # ids.targetAssetID

\* The first-leg row with the transfer written to the leg-2 columns.
FirstLeg_LegTwoColumns(details, snapshot) ==
    [orderId |-> details.traceId, type |-> StrategyType(details), symbol |-> details.symbol,
     firstAssetId |-> "", firstAssetAmount |-> 0, firstSnapshotId |-> 0,
     secondAssetId |-> snapshot.asset_id, secondAssetAmount |-> snapshot.amount,
     secondSnapshotId |-> snapshot.snapshot_id]

\* The row createPaymentState is given for a first leg.
FirstLeg(details, snapshot) ==
    [orderId |-> details.traceId, type |-> StrategyType(details), symbol |-> details.symbol,
     firstAssetId |-> snapshot.asset_id, firstAssetAmount |-> snapshot.amount,
     firstSnapshotId |-> snapshot.snapshot_id,
     secondAssetId |-> "", secondAssetAmount |-> 0, secondSnapshotId |-> 0]

\* The row after updatePaymentStateById has set the leg-2 columns.
SecondLeg(row, snapshot) ==
    [row EXCEPT !.secondAssetId = snapshot.asset_id,
                !.secondAssetAmount = snapshot.amount,
                !.secondSnapshotId = snapshot.snapshot_id]

\* The order made out to the sender of the first leg.
StrategyOrder_FirstLegUser(t, details, snapshot, paymentState) ==
    [task |-> t, kind |-> StrategyType(details), orderId |-> details.traceId,
     userId |-> Ledger[paymentState.firstSnapshotId].opponent_id, pair |-> details.symbol,
     balanceA |-> paymentState.firstAssetAmount, balanceB |-> snapshot.amount,
     state |-> "created"]

\* The order with the base asset's amount as balanceA whichever leg came first.
StrategyOrder_BaseIsA(t, details, snapshot, paymentState) ==
    LET base == snapshot.asset_id = GetAssetIDBySymbol(details.symbol).baseAssetID
    IN [task |-> t, kind |-> StrategyType(details), orderId |-> details.traceId,
        userId |-> snapshot.opponent_id, pair |-> details.symbol,
        balanceA |-> IF base THEN snapshot.amount ELSE paymentState.firstAssetAmount,
        balanceB |-> IF base THEN paymentState.firstAssetAmount ELSE snapshot.amount,
        state |-> "created"]

\* The order with the transfer's own amount as both balances.
StrategyOrder_OwnAmount(t, details, snapshot, paymentState) ==
    [task |-> t, kind |-> StrategyType(details), orderId |-> details.traceId,
     userId |-> snapshot.opponent_id, pair |-> details.symbol,
     balanceA |-> snapshot.amount, balanceB |-> snapshot.amount,
     state |-> "created"]

\* The order createArbitrage / createMarketMaking is given; paymentState is
\* the row the listener read at its start.
StrategyOrder(t, details, snapshot, paymentState) ==
    [task |-> t, kind |-> StrategyType(details), orderId |-> details.traceId,
     userId |-> snapshot.opponent_id, pair |-> details.symbol,
     balanceA |-> paymentState.firstAssetAmount, balanceB |-> snapshot.amount,
     state |-> "created"]

\* The listener refunding a leg that finds its PaymentState complete.
ListenerFindPaymentState_RefundExtra(t) ==
    /\ tasks[t].lpc = "findPaymentState"
    /\ LET paymentState == paymentStates[Details(t).traceId]
       IN tasks' = [tasks EXCEPT
             ![t].paymentState = paymentState,
             ![t].lpc = IF AssetMismatch(Snapshot(t), Details(t)) THEN "refund"
                        ELSE IF paymentState = NoPaymentState THEN "createPaymentState"
                        ELSE IF paymentState.secondAssetId = "" THEN "updatePaymentState"
                        ELSE "refund"]
    /\ UNCHANGED << messages, decoding, enableCron, lastTick, store >>

\* The listener with the first-leg test ahead of the asset check.
ListenerFindPaymentState_LegFirst(t) ==
    /\ tasks[t].lpc = "findPaymentState"
    /\ LET paymentState == paymentStates[Details(t).traceId]
       IN tasks' = [tasks EXCEPT
             ![t].paymentState = paymentState,
             ![t].lpc = IF paymentState = NoPaymentState THEN "createPaymentState"
                        ELSE IF AssetMismatch(Snapshot(t), Details(t)) THEN "refund"
                        ELSE IF paymentState.secondAssetId = "" THEN "updatePaymentState"
                        ELSE "done"]
    /\ UNCHANGED << messages, decoding, enableCron, lastTick, store >>

\* The listener from the answer of findPaymentStateByIdRaw to its next await.
ListenerFindPaymentState(t) ==
    /\ tasks[t].lpc = "findPaymentState"
    /\ LET paymentState == paymentStates[Details(t).traceId]
       IN tasks' = [tasks EXCEPT
             ![t].paymentState = paymentState,
             ![t].lpc = IF AssetMismatch(Snapshot(t), Details(t)) THEN "refund"
                        ELSE IF paymentState = NoPaymentState THEN "createPaymentState"
                        ELSE IF paymentState.secondAssetId = "" THEN "updatePaymentState"
                        ELSE "done"]
    /\ UNCHANGED << messages, decoding, enableCron, lastTick, store >>

\* What sendMixinTx can do: submit the transaction, return without one when
\* the unspent balance is below the amount, or throw.
SendMixinTxOutcomes == {"sent", "insufficient", "failed"}

\* refund that calls sendMixinTx again when the balance was insufficient.
Refund_RetryInsufficient(t) ==
    /\ tasks[t].lpc = "refund"
    /\ \E outcome \in SendMixinTxOutcomes :
          /\ refunds' = refunds \cup
                {[task |-> t, snap |-> Snapshot(t).snapshot_id, to |-> Snapshot(t).opponent_id,
                  asset |-> Snapshot(t).asset_id, amount |-> Snapshot(t).amount,
                  outcome |-> outcome]}
          /\ tasks' = IF outcome = "insufficient" THEN tasks
                      ELSE [tasks EXCEPT ![t].lpc = "done"]
    /\ UNCHANGED << messages, decoding, enableCron, lastTick, snapshotsDb, markerWrites,
                    paymentStates, psWrites, orders, events >>

\* refund without its try/catch: an error of sendMixinTx rejects the listener,
\* and the invocation does not get to its marker write.
Refund_Rethrows(t) ==
    /\ tasks[t].lpc = "refund"
    /\ \E outcome \in SendMixinTxOutcomes :
          /\ refunds' = refunds \cup
                {[task |-> t, snap |-> Snapshot(t).snapshot_id, to |-> Snapshot(t).opponent_id,
                  asset |-> Snapshot(t).asset_id, amount |-> Snapshot(t).amount,
                  outcome |-> outcome]}
          /\ tasks' = IF outcome = "failed"
                      THEN [tasks EXCEPT ![t].lpc = "rejected",
                                         ![t].hpc = IF @ = "createSnapshot" THEN "lost" ELSE @]
                      ELSE [tasks EXCEPT ![t].lpc = "done"]
    /\ UNCHANGED << messages, decoding, enableCron, lastTick, snapshotsDb, markerWrites,
                    paymentStates, psWrites, orders, events >>

\* refund(snapshot): sendMixinTx(opponent_id, asset_id, amount); an error is
\* caught and logged.
Refund(t) ==
    /\ tasks[t].lpc = "refund"
    /\ \E outcome \in SendMixinTxOutcomes :
          refunds' = refunds \cup
             {[task |-> t, snap |-> Snapshot(t).snapshot_id, to |-> Snapshot(t).opponent_id,
               asset |-> Snapshot(t).asset_id, amount |-> Snapshot(t).amount,
               outcome |-> outcome]}
    /\ tasks' = [tasks EXCEPT ![t].lpc = "done"]
    /\ UNCHANGED << messages, decoding, enableCron, lastTick, snapshotsDb, markerWrites,
                    paymentStates, psWrites, orders, events >>

\* What the store can make of createPaymentState(row) when a concurrent
\* listener has stored a row of the same order id meanwhile: the insert is
\* rejected (NoPaymentState stands for the error), the row is replaced, or the columns
\* given are written over and the leg-2 columns are kept.
PutPaymentState(old, row) ==
    IF old = NoPaymentState THEN {row}
    ELSE {NoPaymentState, row,
          [row EXCEPT !.secondAssetId = old.secondAssetId,
                      !.secondAssetAmount = old.secondAssetAmount,
                      !.secondSnapshotId = old.secondSnapshotId]}

\* createPaymentState with the first leg; a store error ends the listener.
CreatePaymentState(t) ==
    /\ tasks[t].lpc = "createPaymentState"
    /\ LET id == Details(t).traceId
       IN \E stored \in PutPaymentState(paymentStates[id], FirstLeg(Details(t), Snapshot(t))) :
             IF stored = NoPaymentState
             THEN UNCHANGED << paymentStates, psWrites >>
             ELSE /\ paymentStates' = [paymentStates EXCEPT ![id] = stored]
                  /\ psWrites' = psWrites \cup {[task |-> t, op |-> "create"]}
    /\ tasks' = [tasks EXCEPT ![t].lpc = "done"]
    /\ UNCHANGED << messages, decoding, enableCron, lastTick, snapshotsDb, markerWrites,
                    orders, refunds, events >>

\* updatePaymentStateById with the second leg, then the call of
\* createArbitrage / createMarketMaking.
UpdatePaymentState(t) ==
    /\ tasks[t].lpc = "updatePaymentState"
    /\ LET id == Details(t).traceId
       IN paymentStates' = [paymentStates EXCEPT ![id] = SecondLeg(paymentStates[id], Snapshot(t))]
    /\ psWrites' = psWrites \cup {[task |-> t, op |-> "update"]}
    /\ tasks' = [tasks EXCEPT ![t].lpc = "createOrder"]
    /\ UNCHANGED << messages, decoding, enableCron, lastTick, snapshotsDb, markerWrites,
                    orders, refunds, events >>

\* createArbitrage / createMarketMaking stores the order.
CreateOrder(t) ==
    /\ tasks[t].lpc = "createOrder"
    /\ orders' = orders \cup {StrategyOrder(t, Details(t), Snapshot(t), tasks[t].paymentState)}
    /\ tasks' = [tasks EXCEPT ![t].lpc = "done"]
    /\ UNCHANGED << messages, decoding, enableCron, lastTick, snapshotsDb, markerWrites,
                    paymentStates, psWrites, refunds, events >>

\* ------------------------------------------------------ store errors
\* The store calls that have thrown so far.
FaultCount ==
    Cardinality({t \in DOMAIN tasks : tasks[t].hpc \in {"rejected", "unarchived"}})
    + Cardinality({t \in DOMAIN tasks : tasks[t].lpc \in
         {"findPaymentStateError", "createPaymentStateError",
          "updatePaymentStateError", "createOrderError"}})

\* What the runtime does with a rejected promise that nothing awaits and
\* nothing catches: report it and go on, or end the process.
UnhandledRejection == {"warned", "exit"}

\* An invocation when the process ends: what it still awaited is lost.
Lost(task) ==
    [task EXCEPT !.hpc = IF @ \in {"checkSnapshotExist", "createSnapshot"} THEN "lost" ELSE @,
                 !.lpc = IF @ \in {"findPaymentState", "refund", "createPaymentState",
                                   "updatePaymentState", "createOrder"} THEN "lost" ELSE @]

\* The invocations after the promise of `t` has rejected, `t` being left as
\* `rejected`.
AfterRejection(t, rejected, outcome) ==
    [u \in DOMAIN tasks |->
       LET task == IF u = t THEN rejected ELSE tasks[u]
       IN IF outcome = "exit" THEN Lost(task) ELSE task]

\* checkSnapshotExist throws: handleSnapshot has no try around it, and the
\* promise of the forEach callback is dropped.
HandleSnapshotRejects(t) ==
    /\ FaultCount < MaxFaults
    /\ tasks[t].hpc = "checkSnapshotExist"
    /\ \E outcome \in UnhandledRejection :
          tasks' = AfterRejection(t, [tasks[t] EXCEPT !.hpc = "rejected"], outcome)
    /\ UNCHANGED << messages, decoding, enableCron, lastTick, store >>

\* snapshotsRepository.createSnapshot throws: createSnapshot catches the
\* error, logs it and returns; handleSnapshot returns normally.
CreateSnapshotFails(t) ==
    /\ FaultCount < MaxFaults
    /\ tasks[t].hpc = "createSnapshot"
    /\ tasks' = [tasks EXCEPT ![t].hpc = "unarchived"]
    /\ UNCHANGED << messages, decoding, enableCron, lastTick, store >>

\* Where a listener stops when the store call it awaits throws.
StoreErrorAt(lpc) ==
    CASE lpc = "findPaymentState" -> "findPaymentStateError"
      [] lpc = "createPaymentState" -> "createPaymentStateError"
      [] lpc = "updatePaymentState" -> "updatePaymentStateError"
      [] lpc = "createOrder" -> "createOrderError"

\* findPaymentStateByIdRaw, createPaymentState, updatePaymentStateById or
\* createArbitrage / createMarketMaking throws: the listener has no try
\* around them and nothing awaits the listener.
ListenerRejects(t) ==
    /\ FaultCount < MaxFaults
    /\ tasks[t].lpc \in {"findPaymentState", "createPaymentState",
                         "updatePaymentState", "createOrder"}
    /\ \E outcome \in UnhandledRejection :
          tasks' = AfterRejection(t, [tasks[t] EXCEPT !.lpc = StoreErrorAt(@)], outcome)
    /\ UNCHANGED << messages, decoding, enableCron, lastTick, store >>

\* ------------------------------------------------------ specification
Next ==
    \/ HandleSnapshotsDisabled
    \/ FetchFailed
    \/ \E batch \in Batches : FetchAndProcessSnapshots(batch)
    \/ \E t \in DOMAIN tasks : HandleSnapshot(t)
    \/ \E t \in DOMAIN tasks : CreateSnapshot(t)
    \/ \E t \in DOMAIN tasks : ListenerFindPaymentState(t)
    \/ \E t \in DOMAIN tasks : Refund(t)
    \/ \E t \in DOMAIN tasks : CreatePaymentState(t)
    \/ \E t \in DOMAIN tasks : UpdatePaymentState(t)
    \/ \E t \in DOMAIN tasks : CreateOrder(t)

Spec == Init /\ [][Next]_vars

\* Every awaited store or network call of a started invocation completes.
HandlerStep ==
    \E t \in DOMAIN tasks :
       \/ HandleSnapshot(t) \/ CreateSnapshot(t) \/ ListenerFindPaymentState(t)
       \/ Refund(t) \/ CreatePaymentState(t) \/ UpdatePaymentState(t) \/ CreateOrder(t)

LiveSpec == Spec /\ WF_vars(HandlerStep)

\* The program with store calls that can throw.  A process ended by an
\* unhandled rejection is started again by its supervisor and polls on; the
\* invocations it had in flight are lost.
FaultNext ==
    \/ HandleSnapshotsDisabled
    \/ FetchFailed
    \/ \E batch \in Batches :
          /\ Cardinality(DOMAIN tasks) + Cardinality(batch) <= MaxFaultTasks
          /\ FetchAndProcessSnapshots(batch)
    \/ \E t \in DOMAIN tasks : HandleSnapshot(t)
    \/ \E t \in DOMAIN tasks : CreateSnapshot(t)
    \/ \E t \in DOMAIN tasks : ListenerFindPaymentState(t)
    \/ \E t \in DOMAIN tasks : Refund(t)
    \/ \E t \in DOMAIN tasks : CreatePaymentState(t)
    \/ \E t \in DOMAIN tasks : UpdatePaymentState(t)
    \/ \E t \in DOMAIN tasks : CreateOrder(t)
    \/ \E t \in DOMAIN tasks : HandleSnapshotRejects(t)
    \/ \E t \in DOMAIN tasks : CreateSnapshotFails(t)
    \/ \E t \in DOMAIN tasks : ListenerRejects(t)

FaultSpec == Init /\ [][FaultNext]_vars

\* ------------------------------------------------ decoding of one memo
\* A transfer arrives whose memo is the encoding of an instruction.
MemoInit ==
    /\ \E instruction \in Instructions :
          decoding = [NotDecoding EXCEPT !.stage = "memo",
                                         !.instruction = instruction,
                                         !.memo = Encode(instruction)]
    /\ enableCron = TRUE
    /\ lastTick = "none"
    /\ tasks = << >>
    /\ snapshotsDb = {}
    /\ markerWrites = {}
    /\ paymentStates = [tr \in TraceIds |-> NoPaymentState]
    /\ psWrites = {}
    /\ orders = {}
    /\ refunds = {}
    /\ events = {}
    /\ messageDb = [m \in MessageIds |-> 0]
    /\ calls = << >>

\* hexDecoedMemo = Buffer.from(snapshot.memo, 'hex').toString('utf-8')
HexDecodeMemo ==
    /\ decoding.stage = "memo"
    /\ decoding' = [decoding EXCEPT !.stage = "hexDecoded",
                                    !.hexDecoedMemo = Utf8ToString(HexDecode(decoding.memo))]
    /\ UNCHANGED << messages, enableCron, lastTick, tasks, store >>

\* decodedMemo = Buffer.from(hexDecoedMemo, 'base64').toString('utf-8')
Base64DecodeMemo ==
    /\ decoding.stage = "hexDecoded"
    /\ decoding' = [decoding EXCEPT !.stage = "decoded",
                                    !.decodedMemo = Utf8ToString(Base64Decode(decoding.hexDecoedMemo))]
    /\ UNCHANGED << messages, enableCron, lastTick, tasks, store >>

\* tradingType = decodedMemo.slice(0, 2), the value the switch dispatches on.
SliceTradingType ==
    /\ decoding.stage = "decoded"
    /\ decoding' = [decoding EXCEPT !.stage = "dispatched",
                                    !.tradingType = CaseLabel(Slice02(decoding.decodedMemo))]
    /\ UNCHANGED << messages, enableCron, lastTick, tasks, store >>

MemoNext == HexDecodeMemo \/ Base64DecodeMemo \/ SliceTradingType

MemoSpec == MemoInit /\ [][MemoNext]_vars

\* ------------------------------------------------- the message history
\* An addMessageIfNotExist call stopped at its first await; `before` notes
\* whether a record of the message existed when the call was made.
NewCall(m) ==
    [message_id |-> m, pc |-> "checkMessageExist", exist |-> FALSE,
     before |-> messageDb[m] > 0]

MessageInit ==
    /\ decoding = NotDecoding
    /\ enableCron \in BOOLEAN
    /\ lastTick = "none"
    /\ tasks = << >>
    /\ snapshotsDb = {}
    /\ markerWrites = {}
    /\ paymentStates = [tr \in TraceIds |-> NoPaymentState]
    /\ psWrites = {}
    /\ orders = {}
    /\ refunds = {}
    /\ events = {}
    /\ messageDb = [m \in MessageIds |-> 0]
    /\ calls = << >>

\* messageHandler.onMessage for a user message: it reaches
\* addMessageIfNotExist without waiting for anything and does not await the
\* call, so the Blaze loop may deliver the next message, or the same message
\* again, while the call is in flight.
OnMessage(m) ==
    /\ Len(calls) < MaxCalls
    /\ calls' = Append(calls, NewCall(m))
    /\ UNCHANGED << messageDb, decoding, enableCron, lastTick, tasks, store >>

\* checkMessageExist answers; addMessageIfNotExist returns `exist` when it
\* is true and goes on to addMessageHistory when it is not.
CheckMessageExist(c) ==
    /\ calls[c].pc = "checkMessageExist"
    /\ LET exist == messageDb[calls[c].message_id] > 0
       IN  calls' = [calls EXCEPT ![c].exist = exist,
                                  ![c].pc = IF exist THEN "returned" ELSE "addMessageHistory"]
    /\ UNCHANGED << messageDb, decoding, enableCron, lastTick, tasks, store >>

\* messageRepository.checkMessageExist throws: the catch logs and answers false.
CheckMessageExistFails(c) ==
    /\ calls[c].pc = "checkMessageExist"
    /\ calls' = [calls EXCEPT ![c].exist = FALSE, ![c].pc = "addMessageHistory"]
    /\ UNCHANGED << messageDb, decoding, enableCron, lastTick, tasks, store >>

\* What messageRepository.addMessageHistory can do with a message: add a
\* record, replace the record of the same message_id, or throw.
AddOutcomes == {"inserted", "replaced", "rejected"}

\* addMessageHistory: the record is given to the repository; when the
\* repository throws, the error is logged and thrown again, so
\* addMessageIfNotExist rejects; otherwise it returns `exist`.
AddMessageHistory(c, outcome) ==
    /\ calls[c].pc = "addMessageHistory"
    /\ outcome = "replaced" => messageDb[calls[c].message_id] > 0
    /\ messageDb' = IF outcome = "inserted"
                       THEN [messageDb EXCEPT ![calls[c].message_id] = @ + 1]
                       ELSE messageDb
    /\ calls' = [calls EXCEPT ![c].pc = IF outcome = "rejected" THEN "rejected" ELSE "returned"]
    /\ UNCHANGED << decoding, enableCron, lastTick, tasks, store >>

MessageNext ==
    \/ \E m \in MessageIds : OnMessage(m)
    \/ \E c \in DOMAIN calls : CheckMessageExist(c)
    \/ \E c \in DOMAIN calls : CheckMessageExistFails(c)
    \/ \E c \in DOMAIN calls, outcome \in AddOutcomes : AddMessageHistory(c, outcome)

MessageSpec == MessageInit /\ [][MessageNext]_vars

\* ------------------------------------------------------------ vocabulary
\* The invocation has returned, and so has the listener it started.
Finished(t) ==
    /\ tasks[t].hpc \in {"done", "exists"}
    /\ tasks[t].lpc \in {"none", "done"}

\* The invocation and its listener have each returned or thrown.
Returned(t) ==
    /\ tasks[t].hpc \in {"done", "exists", "rejected", "unarchived"}
    /\ tasks[t].lpc \in {"none", "done", "findPaymentStateError", "createPaymentStateError",
                         "updatePaymentStateError", "createOrderError"}

\* Something failed while the transfer was handled: a store call threw in
\* handleSnapshot or in the listener, or the refund failed.
Failed(t) ==
    \/ tasks[t].hpc \in {"rejected", "unarchived"}
    \/ tasks[t].lpc \in {"findPaymentStateError", "createPaymentStateError",
                         "updatePaymentStateError", "createOrderError"}
    \/ \E r \in refunds : r.task = t /\ r.outcome = "failed"

\* The invocation was not stopped by the dedup check and has returned.
Processed(t) == tasks[t].hpc = "done" /\ tasks[t].lpc \in {"none", "done"}

\* The transfer carries a decoded arbitrage or market-making instruction.
IsStrategyTransfer(id) ==
    EventFor(Ledger[id].memo) \in {"arbitrage.create", "market_making.create"}

\* Its asset is the base or the target asset of the pair its memo names.
IsValidLeg(id) ==
    /\ IsStrategyTransfer(id)
    /\ Ledger[id].asset_id \in {GetAssetIDBySymbol(Ledger[id].memo.symbol).baseAssetID,
                                GetAssetIDBySymbol(Ledger[id].memo.symbol).targetAssetID}

\* The transfer pays the base (the target) asset of the pair its memo names.
IsBaseLeg(id) ==
    IsStrategyTransfer(id)
    /\ Ledger[id].asset_id = GetAssetIDBySymbol(Ledger[id].memo.symbol).baseAssetID
IsTargetLeg(id) ==
    IsStrategyTransfer(id)
    /\ Ledger[id].asset_id = GetAssetIDBySymbol(Ledger[id].memo.symbol).targetAssetID

RecordedAsLeg(id) ==
    \E tr \in TraceIds : \/ paymentStates[tr].firstSnapshotId = id
                         \/ paymentStates[tr].secondSnapshotId = id

RefundsOf(t) == {r \in refunds : r.task = t}
OrdersOf(t) == {o \in orders : o.task = t}
PsWritesOf(t) == {w \in psWrites : w.task = t}
OrdersFor(tr) == {o \in orders : o.orderId = tr}

\* A refund of the transfer's full amount of its asset to its sender.
FullRefund(r, id) ==
    /\ r.snap = id
    /\ r.to = Ledger[id].opponent_id
    /\ r.asset = Ledger[id].asset_id
    /\ r.amount = Ledger[id].amount

\* ----------------------------------------------------------------- C1
\* C1: for every trace id at most one strategy order is ever created
\* (createArbitrage / createMarketMaking is called at most once per trace id).
C1_AtMostOneOrderPerTrace ==
    \A tr \in TraceIds : Cardinality(OrdersFor(tr)) <= 1

\* ----------------------------------------------------------------- C2
\* C2: once the handling of a transfer with a decoded arbitrage or
\* market-making instruction has finished, the transfer is leg 1 or leg 2 of a
\* PaymentState or a refund of its full amount to its sender has been requested.
C2_MatchedOrRefunded ==
    \A t \in DOMAIN tasks :
       (Processed(t) /\ IsStrategyTransfer(t[1]))
          => \/ RecordedAsLeg(t[1])
             \/ \E r \in refunds : FullRefund(r, t[1])

\* ----------------------------------------------------------------- C3
\* C3: a poll cycle hands transfers to handleSnapshot only when every
\* invocation started by an earlier cycle has finished.
C3_OneCycleInFlight ==
    [][DOMAIN tasks' # DOMAIN tasks => \A t \in DOMAIN tasks : Finished(t)]_vars

\* ----------------------------------------------------------------- C4
\* C4: when exactly two valid legs of a trace id have been handled, whatever
\* their interleaving, one is leg 1 and the other leg 2 of the PaymentState
\* and one strategy order exists for the trace id.
C4_BothLegsKept ==
    \A tr \in TraceIds : \A a, b \in DOMAIN tasks :
       ( /\ a[1] # b[1]
         /\ {t \in DOMAIN tasks : IsValidLeg(t[1]) /\ Details(t).traceId = tr} = {a, b}
         /\ Processed(a) /\ Processed(b) )
       => /\ {paymentStates[tr].firstSnapshotId, paymentStates[tr].secondSnapshotId} = {a[1], b[1]}
          /\ Cardinality(OrdersFor(tr)) = 1

\* ----------------------------------------------------------------- C5
\* C5: a delivery of a transfer whose marker exists when handleSnapshot looks
\* it up returns at once: no store, order, refund or event changes, and the
\* invocation does nothing afterwards.
C5_DedupNoEffect ==
    [][\A t \in DOMAIN tasks :
          /\ ( /\ tasks[t].hpc = "checkSnapshotExist"
               /\ tasks'[t].hpc # "checkSnapshotExist"
               /\ t[1] \in snapshotsDb )
             => /\ UNCHANGED store
                /\ tasks'[t] = [tasks[t] EXCEPT !.hpc = "exists"]
          /\ tasks[t].hpc = "exists" => tasks'[t] = tasks[t]]_vars

\* A second delivery was stopped by the dedup check after the first was handled.
C5_Witness ==
    \E t \in DOMAIN tasks :
       /\ tasks[t].hpc = "exists"
       /\ IsValidLeg(t[1])
       /\ RecordedAsLeg(t[1])

\* ----------------------------------------------------------------- C6
\* C6: for every transfer id, however its deliveries overlap, at most one
\* refund, at most one PaymentState write and at most one marker write happen.
C6_EffectsAtMostOnce ==
    \A id \in SnapshotIds :
       /\ Cardinality({r \in refunds : r.snap = id}) <= 1
       /\ Cardinality({w \in psWrites : w.task[1] = id}) <= 1
       /\ Cardinality({t \in markerWrites : t[1] = id}) <= 1

\* ----------------------------------------------------------------- C7
\* C7: once the marker of an invocation is written, that invocation makes no
\* further refund, PaymentState write or order.
C7_MarkerAfterEffects ==
    [][\A t \in DOMAIN tasks :
          tasks[t].hpc = "done"
             => /\ {r \in refunds' : r.task = t} = RefundsOf(t)
                /\ {w \in psWrites' : w.task = t} = PsWritesOf(t)
                /\ {o \in orders' : o.task = t} = OrdersOf(t)]_vars

\* ----------------------------------------------------------------- C8
\* C8: every transfer handed to handleSnapshot is eventually in the
\* Snapshot Ledger.  No invocation and no marker is ever removed, so this is:
\* again and again, every transfer handed over so far is in the ledger.
C8_EventuallyArchived ==
    []<>(\A t \in DOMAIN tasks : t[1] \in snapshotsDb)

\* A mismatched transfer whose refund failed has been archived.
C8_Witness ==
    \E t \in DOMAIN tasks :
       /\ tasks[t].hpc = "done"
       /\ t[1] \in snapshotsDb
       /\ \E r \in RefundsOf(t) : r.outcome = "failed"

\* ----------------------------------------------------------------- C9
\* C9: the listener of a transfer whose asset is neither the base nor the
\* target asset of its pair changes no PaymentState and creates no order, and
\* when its handling has finished one refund of the full amount to the
\* sender has been requested and the transfer is archived.
C9_MismatchRefunded ==
    [][\A t \in DOMAIN tasks :
          (IsStrategyTransfer(t[1]) /\ ~IsValidLeg(t[1]))
             => /\ tasks'[t] # tasks[t] => UNCHANGED << paymentStates, psWrites, orders >>
                /\ Processed(t)' =>
                      /\ \E r \in refunds' : RefundsOf(t)' = {r} /\ FullRefund(r, t[1])
                      /\ t[1] \in snapshotsDb'
                      /\ OrdersOf(t)' = {} /\ PsWritesOf(t)' = {}]_vars

\* A mismatched transfer was refunded and archived while a PaymentState of
\* its trace id was awaiting its second leg.
C9_Witness ==
    \E t \in DOMAIN tasks :
       /\ IsStrategyTransfer(t[1]) /\ ~IsValidLeg(t[1])
       /\ Processed(t)
       /\ RefundsOf(t) # {}
       /\ paymentStates[Details(t).traceId] # NoPaymentState

\* ---------------------------------------------------------------- C10
\* C10: once second_asset_id of a PaymentState is set, no step changes any
\* of its fields.
C10_CompleteImmutable ==
    [][\A tr \in TraceIds :
          paymentStates[tr].secondAssetId # "" => paymentStates'[tr] = paymentStates[tr]]_vars

\* ---------------------------------------------------------------- C11
\* C11: in every state in which every started invocation and its listener
\* have returned or thrown, a trace id has a strategy order exactly when its
\* PaymentState is complete; in particular an order creation that fails after
\* the leg-2 update leaves no complete PaymentState without an order.
C11_OrderIffComplete ==
    (\A t \in DOMAIN tasks : Returned(t))
       => \A tr \in TraceIds :
             OrdersFor(tr) # {} <=> paymentStates[tr].secondAssetId # ""

\* ---------------------------------------------------------------- C12
\* C12: a valid transfer of trace id T handled while no PaymentState of T
\* exists goes on to createPaymentState, and that call stores a PaymentState
\* keyed by T whose first-leg fields are the transfer's asset, amount and id
\* and whose second-leg fields are unset; no other PaymentState changes, no
\* order is created, and the listener ends there.
C12_FirstLeg ==
    [][\A t \in DOMAIN tasks :
          (IsValidLeg(t[1]) /\ paymentStates[Details(t).traceId] = NoPaymentState)
             => LET tr == Details(t).traceId
                IN /\ (tasks[t].lpc = "findPaymentState" /\ tasks'[t].lpc # "findPaymentState")
                         => /\ tasks'[t].lpc = "createPaymentState"
                            /\ UNCHANGED << paymentStates, orders >>
                   /\ (tasks[t].lpc = "createPaymentState" /\ tasks'[t].lpc # "createPaymentState")
                         => /\ paymentStates'[tr].orderId = tr
                            /\ paymentStates'[tr].firstAssetId = Ledger[t[1]].asset_id
                            /\ paymentStates'[tr].firstAssetAmount = Ledger[t[1]].amount
                            /\ paymentStates'[tr].firstSnapshotId = t[1]
                            /\ paymentStates'[tr].secondAssetId = ""
                            /\ paymentStates'[tr].secondAssetAmount = 0
                            /\ paymentStates'[tr].secondSnapshotId = 0
                            /\ \A other \in TraceIds \ {tr} :
                                  paymentStates'[other] = paymentStates[other]
                            /\ orders' = orders
                            /\ tasks'[t].lpc = "done"
                            /\ {o \in orders' : o.task = t} = {}]_vars

\* The target-asset transfer of t1 came first and is the first leg of a
\* PaymentState that awaits its second leg; no order exists.
C12_Witness ==
    \E t \in DOMAIN tasks :
       /\ t[1] = 2
       /\ Processed(t)
       /\ tasks[t].paymentState = NoPaymentState
       /\ paymentStates["t1"].firstSnapshotId = 2
       /\ paymentStates["t1"].firstAssetAmount = 2
       /\ paymentStates["t1"].secondAssetId = ""
       /\ orders = {}

\* ---------------------------------------------------------------- C13
\* C13: a valid transfer of trace id T whose listener finds the PaymentState
\* of T with second_asset_id unset goes on to updatePaymentStateById, which
\* sets the leg-2 fields to the transfer's asset, amount and id and leaves
\* the leg-1 fields alone, and then creates exactly one order with
\* orderId = T, balanceA = first_asset_amount of the PaymentState it found,
\* balanceB = the transfer's amount and state = created.
C13_SecondLeg ==
    [][\A t \in DOMAIN tasks :
          IsValidLeg(t[1])
             => LET tr == Details(t).traceId
                IN /\ ( /\ tasks[t].lpc = "findPaymentState"
                        /\ tasks'[t].lpc # "findPaymentState"
                        /\ paymentStates[tr] # NoPaymentState
                        /\ paymentStates[tr].secondAssetId = "" )
                         => /\ tasks'[t].lpc = "updatePaymentState"
                            /\ tasks'[t].paymentState = paymentStates[tr]
                            /\ UNCHANGED << paymentStates, orders >>
                   /\ (tasks[t].lpc = "updatePaymentState" /\ tasks'[t].lpc # "updatePaymentState")
                         => /\ paymentStates'[tr].secondAssetId = Ledger[t[1]].asset_id
                            /\ paymentStates'[tr].secondAssetAmount = Ledger[t[1]].amount
                            /\ paymentStates'[tr].secondSnapshotId = t[1]
                            /\ paymentStates'[tr].firstAssetId = paymentStates[tr].firstAssetId
                            /\ paymentStates'[tr].firstAssetAmount = paymentStates[tr].firstAssetAmount
                            /\ paymentStates'[tr].firstSnapshotId = paymentStates[tr].firstSnapshotId
                            /\ orders' = orders
                            /\ tasks'[t].lpc = "createOrder"
                   /\ (tasks[t].lpc = "createOrder" /\ tasks'[t].lpc # "createOrder")
                         => /\ \E o \in orders' \ orders :
                                  /\ orders' = orders \cup {o}
                                  /\ {x \in orders' : x.task = t} = {o}
                                  /\ o.orderId = tr
                                  /\ o.balanceA = tasks[t].paymentState.firstAssetAmount
                                  /\ o.balanceB = Ledger[t[1]].amount
                                  /\ o.state = "created"
                            /\ tasks'[t].lpc = "done"
                            /\ UNCHANGED paymentStates]_vars

\* The base-asset transfer of t1 was recorded first, the target-asset transfer
\* filled leg 2, and the order carries 1 and 2.
C13_Witness ==
    /\ paymentStates["t1"].firstSnapshotId = 1
    /\ paymentStates["t1"].secondSnapshotId = 2
    /\ paymentStates["t1"].secondAssetId = "USDT"
    /\ \E o \in orders :
          /\ orders = {o}
          /\ o.task[1] = 2
          /\ o.orderId = "t1" /\ o.balanceA = 1 /\ o.balanceB = 2 /\ o.state = "created"

\* ---------------------------------------------------------------- C14
\* C14: when the valid transfers handled for a trace id are one base-asset
\* transfer A and one target-asset transfer B, then in whichever order they
\* were processed every order of the trace id has as balanceA the amount of
\* the transfer recorded as leg 1 of the PaymentState and as balanceB the
\* amount of the transfer recorded as leg 2.
C14_LegOrderInvariance ==
    \A tr \in TraceIds : \A a, b \in DOMAIN tasks :
       ( /\ {t \in DOMAIN tasks : IsValidLeg(t[1]) /\ Details(t).traceId = tr} = {a, b}
         /\ IsBaseLeg(a[1]) /\ IsTargetLeg(b[1]) )
       => \A o \in OrdersFor(tr) :
             /\ {paymentStates[tr].firstSnapshotId, paymentStates[tr].secondSnapshotId}
                   = {a[1], b[1]}
             /\ o.balanceA = Ledger[paymentStates[tr].firstSnapshotId].amount
             /\ o.balanceB = Ledger[paymentStates[tr].secondSnapshotId].amount

\* The target-asset transfer was processed first: leg 1 is transfer 2, leg 2
\* is transfer 1 and the order carries 2 and 1.
C14_Witness ==
    /\ {t \in DOMAIN tasks : IsValidLeg(t[1]) /\ Details(t).traceId = "t1"} = {<<1, 1>>, <<2, 1>>}
    /\ paymentStates["t1"].firstSnapshotId = 2
    /\ paymentStates["t1"].secondSnapshotId = 1
    /\ \E o \in OrdersFor("t1") : o.balanceA = 2 /\ o.balanceB = 1

\* ---------------------------------------------------------------- C15
\* C15: the PaymentState of a trace id only moves forward: once it exists no
\* step removes it, and once its second_asset_id is set no step leaves it
\* with second_asset_id unset.
C15_ForwardOnly ==
    [][\A tr \in TraceIds :
          /\ paymentStates[tr] # NoPaymentState => paymentStates'[tr] # NoPaymentState
          /\ paymentStates[tr].secondAssetId # "" => paymentStates'[tr].secondAssetId # ""]_vars

\* ---------------------------------------------------------------- C16
\* C16: the handling of a transfer whose memo is absent or empty emits no
\* event, starts no listener, changes no PaymentState, creates no order and
\* requests no refund; when it has returned the transfer is archived.
C16_NoMemoArchivedOnly ==
    [][\A t \in DOMAIN tasks :
          Ledger[t[1]].memo.kind \in {"null", "empty"}
             => /\ tasks'[t] # tasks[t]
                      => UNCHANGED << events, paymentStates, psWrites, orders, refunds >>
                /\ tasks'[t].lpc = "none"
                /\ Processed(t)'
                      => /\ t[1] \in snapshotsDb'
                         /\ t \in markerWrites'
                         /\ {e \in events' : e.task = t} = {}
                         /\ {r \in refunds' : r.task = t} = {}
                         /\ {w \in psWrites' : w.task = t} = {}
                         /\ {o \in orders' : o.task = t} = {}]_vars

\* A transfer with an empty memo and one without memo were archived while a
\* PaymentState was awaiting its second leg.
C16_Witness ==
    /\ \E t \in DOMAIN tasks : Ledger[t[1]].memo.kind = "empty" /\ Processed(t) /\ t[1] \in snapshotsDb
    /\ \E t \in DOMAIN tasks : Ledger[t[1]].memo.kind = "null" /\ Processed(t) /\ t[1] \in snapshotsDb
    /\ \E tr \in TraceIds : paymentStates[tr] # NoPaymentState

\* ---------------------------------------------------------------- C17
\* C17: a transfer whose marker write or whose PaymentState write
\* (createPaymentState, updatePaymentStateById) threw is not marked by the
\* invocation that handled it: it stays eligible for the next cycle.
C17_FailedWriteLeavesUnmarked ==
    \A t \in DOMAIN tasks :
       ( \/ tasks[t].hpc = "unarchived"
         \/ tasks[t].lpc \in {"createPaymentStateError", "updatePaymentStateError"} )
       => t \notin markerWrites

\* ---------------------------------------------------------------- C18
\* C18: a failure while one transfer is handled (a store call that throws in
\* handleSnapshot or in a listener, a failed refund) stops the handling of no
\* other transfer: no other invocation and no other listener is lost before
\* it has returned.
C18_SiblingsNotStopped ==
    \A t, u \in DOMAIN tasks :
       (t # u /\ Failed(t)) => tasks[u].hpc # "lost" /\ tasks[u].lpc # "lost"

\* ---------------------------------------------------------------- C19
\* C19: when sendMixinTx throws in the refund of an asset-mismatched
\* transfer, the listener returns normally (the error is caught in refund),
\* the step changes no PaymentState, order or marker and does not disturb
\* handleSnapshot, and once the handling has returned the marker of the
\* transfer is written and the invocation has written no PaymentState.
C19_FailedRefundStillArchived ==
    [][\A t \in DOMAIN tasks :
          /\ (\E r \in refunds' \ refunds : r.task = t /\ r.outcome = "failed")
                => /\ tasks'[t].lpc = "done"
                   /\ tasks'[t].hpc = tasks[t].hpc
                   /\ UNCHANGED << paymentStates, psWrites, orders, snapshotsDb, markerWrites >>
          /\ (\E r \in refunds' : r.task = t /\ r.outcome = "failed")
                => /\ tasks'[t].hpc \in {"createSnapshot", "done"}
                   /\ tasks'[t].lpc = "done"
                   /\ tasks'[t].hpc = "done" => t \in markerWrites' /\ t[1] \in snapshotsDb'
                   /\ {w \in psWrites' : w.task = t} = {}]_vars

\* The refund of the mismatched transfer 3 failed, its marker is written and
\* the PaymentState of t1, awaiting its second leg, is as the first leg left it.
C19_Witness ==
    \E t \in DOMAIN tasks :
       /\ t[1] = 3
       /\ \E r \in RefundsOf(t) : r.outcome = "failed"
       /\ Processed(t)
       /\ t \in markerWrites
       /\ paymentStates["t1"].firstSnapshotId = 1
       /\ paymentStates["t1"].secondAssetId = ""

\* ---------------------------------------------------------------- C20
\* C20: a cron tick whose fetch throws or returns nothing, and a tick whose
\* fetch returns no snapshot, start no invocation and change no invocation,
\* store, order, refund or event; the cron switch stays on, so the next tick
\* fetches again.
C20_FetchFailureHarmless ==
    [][( /\ lastTick' # lastTick
         /\ \/ lastTick' = "fetch_failed"
            \/ lastTick' = "handled" /\ DOMAIN tasks' = DOMAIN tasks )
          => /\ UNCHANGED << tasks, store >>
             /\ enableCron']_vars

\* A fetch failed while invocations of an earlier cycle were in flight and
\* after a transfer had been archived.
C20_Witness ==
    /\ lastTick = "fetch_failed"
    /\ snapshotsDb # {}
    /\ \E t \in DOMAIN tasks : tasks[t].lpc = "updatePaymentState"

\* ---------------------------------------------------------------- C21
\* C21: the first two characters of the decoded memo select what
\* handleSnapshot emits: every event of a transfer with prefix SP is a spot
\* event, with AR an arbitrage event, with MM a market-making event, at most
\* one per invocation and exactly one when the memo's payload parses; for any
\* other prefix the handling emits no event, starts no listener, changes no
\* PaymentState, order or refund, and once it has returned the transfer is
\* archived.
C21_DispatchByPrefix ==
    [][\A t \in DOMAIN tasks :
          Ledger[t[1]].memo.kind = "data"
             => LET prefix == Ledger[t[1]].memo.prefix
                    emitted == {e \in events' : e.task = t}
                IN /\ Cardinality(emitted) <= 1
                   /\ prefix = "SP" => \A e \in emitted : e.name = "spot.create"
                   /\ prefix = "AR" => \A e \in emitted : e.name = "arbitrage.create"
                   /\ prefix = "MM" => \A e \in emitted : e.name = "market_making.create"
                   /\ ( /\ prefix \in {"SP", "AR", "MM"}
                        /\ Ledger[t[1]].memo.parsed
                        /\ tasks'[t].hpc \in {"createSnapshot", "done"} )
                         => Cardinality(emitted) = 1
                   /\ prefix \notin {"SP", "AR", "MM"}
                         => /\ emitted = {}
                            /\ tasks'[t].lpc = "none"
                            /\ tasks'[t] # tasks[t]
                                  => UNCHANGED << events, paymentStates, psWrites, orders, refunds >>
                            /\ Processed(t)' => t[1] \in snapshotsDb' /\ t \in markerWrites']_vars

\* A spot event and a market-making event were emitted, one for each of two
\* transfers, and a transfer with an unknown prefix was archived with no event.
C21_Witness ==
    /\ {e.name : e \in events} = {"spot.create", "market_making.create"}
    /\ Cardinality(events) = 2
    /\ \E t \in DOMAIN tasks :
          /\ t[1] = 9 /\ Processed(t) /\ t[1] \in snapshotsDb
          /\ {e \in events : e.task = t} = {}

\* ---------------------------------------------------------------- C22
\* C22: when the memo has prefix SP, AR or MM and the decoder of that prefix
\* returns no details, the handling emits no event, starts no listener,
\* changes no PaymentState, order or refund, and once it has returned the
\* transfer is archived.
C22_ParseFailureNoInstruction ==
    [][\A t \in DOMAIN tasks :
          ( /\ Ledger[t[1]].memo.kind = "data"
            /\ Ledger[t[1]].memo.prefix \in {"SP", "AR", "MM"}
            /\ ~Ledger[t[1]].memo.parsed )
             => /\ {e \in events' : e.task = t} = {}
                /\ tasks'[t].lpc = "none"
                /\ tasks'[t] # tasks[t]
                      => UNCHANGED << events, paymentStates, psWrites, orders, refunds >>
                /\ Processed(t)' => t[1] \in snapshotsDb' /\ t \in markerWrites']_vars

\* One transfer of each recognized prefix whose payload does not parse was
\* archived, and nothing else happened.
C22_Witness ==
    /\ \A p \in {"SP", "AR", "MM"} :
          \E t \in DOMAIN tasks :
             /\ Ledger[t[1]].memo.prefix = p /\ ~Ledger[t[1]].memo.parsed
             /\ Processed(t) /\ t[1] \in snapshotsDb
    /\ events = {} /\ refunds = {} /\ orders = {} /\ psWrites = {}

\* ---------------------------------------------------------------- C23
\* C23: the handling of a transfer with a decoded SP instruction emits one
\* 'spot.create' event that carries the instruction and the transfer, starts
\* no two-leg listener, changes no PaymentState, creates no order and
\* requests no refund; once it has returned the transfer is archived.
C23_SpotBypasses ==
    [][\A t \in DOMAIN tasks :
          ( /\ Ledger[t[1]].memo.kind = "data"
            /\ Ledger[t[1]].memo.prefix = "SP"
            /\ Ledger[t[1]].memo.parsed )
             => LET emitted == {e \in events' : e.task = t}
                IN /\ \A e \in emitted :
                         /\ emitted = {e}
                         /\ e.name = "spot.create"
                         /\ e.snap = t[1]
                         /\ e.details = Ledger[t[1]].memo
                   /\ tasks'[t].hpc \in {"createSnapshot", "done"} => emitted # {}
                   /\ tasks'[t].lpc = "none"
                   /\ tasks'[t] # tasks[t]
                         => UNCHANGED << paymentStates, psWrites, orders, refunds >>
                   /\ Processed(t)' => t[1] \in snapshotsDb' /\ t \in markerWrites']_vars

\* The spot transfer, whose memo names trace t1, was archived with its event
\* while the PaymentState of t1 was awaiting its second leg.
C23_Witness ==
    /\ \E t \in DOMAIN tasks :
          /\ t[1] = 8 /\ Processed(t) /\ t[1] \in snapshotsDb
          /\ \E e \in events : e.task = t /\ e.name = "spot.create"
    /\ paymentStates["t1"].firstSnapshotId = 1
    /\ paymentStates["t1"].secondAssetId = ""
    /\ orders = {}

\* ---------------------------------------------------------------- C24
\* C24: for every instruction prefix + payload with prefix SP, AR or MM,
\* hex-decoding and then base64-decoding the memo hex(base64(instruction))
\* gives the instruction back, and the kind the switch dispatches on is the
\* prefix that was encoded.
C24_MemoRoundTrip ==
    /\ decoding.stage = "hexDecoded"
          => decoding.hexDecoedMemo = Base64Encode(decoding.instruction)
    /\ decoding.stage \in {"decoded", "dispatched"}
          => decoding.decodedMemo = decoding.instruction
    /\ decoding.stage = "dispatched"
          => /\ decoding.tradingType = CaseLabel(SubSeq(decoding.instruction, 1, 2))
             /\ decoding.tradingType \in {"SP", "AR", "MM"}
             /\ EventFor(Memo(decoding.tradingType, TRUE, "", ""))
                   = CASE SubSeq(decoding.instruction, 1, 2) = << 83, 80 >> -> "spot.create"
                       [] SubSeq(decoding.instruction, 1, 2) = << 65, 82 >> -> "arbitrage.create"
                       [] SubSeq(decoding.instruction, 1, 2) = << 77, 77 >> -> "market_making.create"

\* The memo of "MM:z", whose base64 text ends in padding, was decoded and
\* dispatched.
C24_Witness ==
    /\ decoding.stage = "dispatched"
    /\ decoding.instruction = << 77, 77, 58, 122 >>
    /\ decoding.decodedMemo = << 77, 77, 58, 122 >>
    /\ Len(decoding.memo) = 16
    /\ decoding.tradingType = "MM"

\* ---------------------------------------------------------------- C25
\* C25: the listener of a valid transfer that finds the PaymentState of its
\* trace id with second_asset_id set returns at once: it changes no
\* PaymentState, creates no order and requests no refund, and once the
\* handling has returned the transfer is archived.
C25_ExtraLegIgnored ==
    [][\A t \in DOMAIN tasks :
          IsValidLeg(t[1])
             => /\ ( /\ tasks[t].lpc = "findPaymentState"
                     /\ tasks'[t].lpc # "findPaymentState"
                     /\ paymentStates[Details(t).traceId].secondAssetId # "" )
                      => /\ tasks'[t].lpc = "done"
                         /\ UNCHANGED << paymentStates, psWrites, orders, refunds >>
                /\ tasks'[t].paymentState.secondAssetId # ""
                      => /\ tasks'[t].lpc = "done"
                         /\ {w \in psWrites' : w.task = t} = {}
                         /\ {o \in orders' : o.task = t} = {}
                         /\ {r \in refunds' : r.task = t} = {}
                         /\ tasks'[t].hpc = "done" => t[1] \in snapshotsDb' /\ t \in markerWrites']_vars

\* A third valid transfer of t1 arrived after legs 1 and 2: it is archived,
\* the PaymentState is as leg 2 left it and the trace id has its one order.
C25_Witness ==
    \E t \in DOMAIN tasks :
       /\ t[1] = 4
       /\ Processed(t)
       /\ tasks[t].paymentState.secondAssetId # ""
       /\ t[1] \in snapshotsDb
       /\ paymentStates["t1"].firstSnapshotId = 1
       /\ paymentStates["t1"].secondSnapshotId = 2
       /\ Cardinality(orders) = 1
       /\ refunds = {}

\* ---------------------------------------------------------------- C26
\* C26: in every reachable state the two legs of a complete PaymentState are
\* different transfers.
C26_LegsDistinctTransfers ==
    \A tr \in TraceIds :
       paymentStates[tr].secondAssetId # ""
          => paymentStates[tr].secondSnapshotId # paymentStates[tr].firstSnapshotId

\* ---------------------------------------------------------------- C27
\* C27: in every reachable state the two legs of a complete PaymentState pay
\* different assets, one the base and the other the target asset of the pair
\* recorded in the PaymentState.
C27_LegsCoverPair ==
    \A tr \in TraceIds :
       paymentStates[tr].secondAssetId # ""
          => /\ paymentStates[tr].secondAssetId # paymentStates[tr].firstAssetId
             /\ {paymentStates[tr].firstAssetId, paymentStates[tr].secondAssetId}
                   = {GetAssetIDBySymbol(paymentStates[tr].symbol).baseAssetID,
                      GetAssetIDBySymbol(paymentStates[tr].symbol).targetAssetID}

\* ---------------------------------------------------------------- C28
\* C28: every order is of the strategy type of the PaymentState it was
\* created for: an arbitrage order for a PaymentState of type arbitrage, a
\* market-making order for one of type market_making.
C28_OrderKindMatchesType ==
    \A o \in orders : o.kind = tasks[o.task].paymentState.type

\* ---------------------------------------------------------------- C29
\* C29: every order is for the pair symbol stored in the PaymentState it was
\* created for, and the transfer recorded as leg 2 of a PaymentState names
\* the pair symbol stored in it at leg 1.
C29_OrderPairMatchesSymbol ==
    /\ \A o \in orders : o.pair = tasks[o.task].paymentState.symbol
    /\ \A tr \in TraceIds :
          paymentStates[tr].secondAssetId # ""
             => Ledger[paymentStates[tr].secondSnapshotId].memo.symbol = paymentStates[tr].symbol

\* ---------------------------------------------------------------- C30
\* C30: the userId of every order is the sender of the transfer that filled
\* leg 2; a PaymentState has no column for a sender, and a valid transfer that
\* finds the PaymentState awaiting its second leg goes on to fill it whoever
\* sent the first leg.
C30_UserIsSecondLegSender ==
    [][/\ \A o \in orders' : o.userId = Ledger[o.task[1]].opponent_id
       /\ \A tr \in TraceIds :
             DOMAIN paymentStates'[tr] =
                {"orderId", "type", "symbol", "firstAssetId", "firstAssetAmount",
                 "firstSnapshotId", "secondAssetId", "secondAssetAmount", "secondSnapshotId"}
       /\ \A t \in DOMAIN tasks :
             ( /\ IsValidLeg(t[1])
               /\ tasks[t].lpc = "findPaymentState"
               /\ tasks'[t].lpc # "findPaymentState"
               /\ paymentStates[Details(t).traceId] # NoPaymentState
               /\ paymentStates[Details(t).traceId].secondAssetId = ""
               /\ Ledger[paymentStates[Details(t).traceId].firstSnapshotId].opponent_id
                     # Ledger[t[1]].opponent_id )
             => tasks'[t].lpc = "updatePaymentState"]_vars

\* Leg 1 of t1 came from u1 and leg 2 from u2: the order is u2's.
C30_Witness ==
    /\ paymentStates["t1"].firstSnapshotId = 1
    /\ paymentStates["t1"].secondSnapshotId = 4
    /\ \E o \in orders :
          /\ orders = {o}
          /\ o.task[1] = 4
          /\ o.userId = "u2"
          /\ Ledger[1].opponent_id = "u1"

\* ---------------------------------------------------------------- C31
\* C31: when sendMixinTx finds the unspent balance below the amount, it
\* submits no transaction and throws nothing: the refund call is the only
\* one of the invocation, the listener returns normally, the step changes no
\* store and does not disturb handleSnapshot; once the handling has returned
\* the transfer is archived, and a later delivery stopped by the dedup check
\* requests no refund.
C31_InsufficientBalance ==
    [][\A t \in DOMAIN tasks :
          /\ (\E r \in refunds' \ refunds : r.task = t /\ r.outcome = "insufficient")
                => /\ tasks'[t].lpc = "done"
                   /\ tasks'[t].hpc = tasks[t].hpc
                   /\ UNCHANGED << paymentStates, psWrites, orders, snapshotsDb, markerWrites >>
          /\ (\E r \in refunds' : r.task = t /\ r.outcome = "insufficient")
                => /\ \A r \in refunds' : r.task = t => r.outcome = "insufficient"
                   /\ tasks'[t].lpc = "done"
                   /\ tasks'[t].hpc \in {"createSnapshot", "done"}
                   /\ tasks'[t].hpc = "done" => t \in markerWrites' /\ t[1] \in snapshotsDb'
          /\ tasks'[t].hpc = "exists" => {r \in refunds' : r.task = t} = {}]_vars

\* The refund of the mismatched transfer 3 met an insufficient balance, the
\* transfer was archived, and its second delivery was stopped by the dedup
\* check: no transaction was ever submitted for it.
C31_Witness ==
    \E t, u \in DOMAIN tasks :
       /\ t = << 3, 1 >> /\ u = << 3, 2 >>
       /\ Processed(t)
       /\ 3 \in snapshotsDb
       /\ tasks[u].hpc = "exists"
       /\ {r.outcome : r \in {x \in refunds : x.snap = 3}} = {"insufficient"}

\* ---------------------------------------------------------------- C32
\* C32: while the cron switch is off every step (a tick of handleSnapshots)
\* fetches nothing, starts no invocation and leaves the Snapshot Ledger, the
\* PaymentStates, the orders and every other store unchanged; a fetch, a new
\* invocation or a store change happens only with the switch on, and no
\* step changes the switch.
C32_CronOffNoEffect ==
    [][/\ ~enableCron => UNCHANGED << tasks, store >> /\ lastTick' = "disabled"
       /\ (lastTick' # lastTick /\ lastTick' \in {"handled", "fetch_failed"}) => enableCron
       /\ (DOMAIN tasks' # DOMAIN tasks \/ store' # store) => enableCron
       /\ enableCron' = enableCron]_vars

\* A tick came with the switch off: nothing was fetched or stored.
C32_Witness ==
    /\ ~enableCron
    /\ lastTick = "disabled"
    /\ tasks = << >>
    /\ snapshotsDb = {} /\ orders = {}
    /\ \A tr \in TraceIds : paymentStates[tr] = NoPaymentState

\* ---------------------------------------------------------------- C33
\* C33: addMessageIfNotExist has a record stored only when no record of that
\* message_id exists, a call made when a record existed ends by returning
\* true and a call that returns true found a record, and no message_id ever
\* has more than one record, however the calls of onMessage overlap.
C33_AtMostOneRecord ==
    [][/\ \A c \in DOMAIN calls :
             (calls[c].pc = "addMessageHistory" /\ calls'[c].pc = "returned")
                => messageDb[calls[c].message_id] = 0
       /\ \A c \in DOMAIN calls' :
             /\ (calls'[c].pc \in {"returned", "rejected"} /\ calls'[c].before)
                   => calls'[c].pc = "returned" /\ calls'[c].exist
             /\ (calls'[c].pc = "returned" /\ calls'[c].exist)
                   => messageDb'[calls'[c].message_id] > 0
       /\ \A m \in MessageIds : messageDb'[m] <= 1]_vars

====
